---- MODULE Spec2Model ----
(***************************************************************************)
(* Model of rackspace_monitoring/drivers/rackspace.py: the response        *)
(* decoder, the cursor pagination (_get_more driven by a LazyList), the    *)
(* location resolver (_url_to_obj_ids), the create/update flow and the     *)
(* cascading delete of an entity.                                          *)
(*                                                                         *)
(* Python values are modelled as follows: None is the string "None";      *)
(* a mapping with a known key set is a record whose absent keys hold       *)
(* Absent; text is a sequence of tokens where the code takes it apart      *)
(* (paths), and a string otherwise.                                        *)
(***************************************************************************)
EXTENDS Integers, Sequences, FiniteSets, TLC

VARIABLES
    \* ---- a LazyList over _get_more (one paged sequence) ----
    value_dict,     \* the fetch descriptor handed to LazyList
    last_key,       \* LazyList._last_key
    exhausted,      \* LazyList._exhausted
    data,           \* LazyList._data
    reqs,           \* the query parameters of every page request sent, in order
    resps,          \* the answer to each of them, in order
    page_err,       \* the error the last _get_more raised, or None
    \* ---- _url_to_obj_ids ----
    loc_url,        \* the location handed to _url_to_obj_ids
    request_path,   \* connection.request_path
    loc_out,        \* its outcome
    \* ---- _create / _update ----
    wr_in,          \* the call: method, data, the service's answer
    wr_out,         \* what the call did: requests sent, constructor calls, error
    \* ---- parse_error ----
    pe_in,          \* the response handed to parse_error
    pe_out,         \* its outcome
    \* ---- delete_entity against a service ----
    svc,            \* the service: the entity, its checks, its alarms
    de              \* the delete_entity call: position, arguments, history

pageVars == <<value_dict, last_key, exhausted, data, reqs, resps, page_err>>
urlVars == <<loc_url, request_path, loc_out>>
writeVars == <<wr_in, wr_out>>
errVars == <<pe_in, pe_out>>
delVars == <<svc, de>>
vars == <<pageVars, urlVars, writeVars, errVars, delVars>>

(***************************************************************************)
(* Bounds of the model.                                                    *)
(***************************************************************************)
MaxPages == 3       \* page requests of one paged sequence
MaxPairs == 2       \* /collection/id pairs of a location
MaxChecks == 2      \* checks the service holds for the entity
MaxAlarms == 1      \* alarms the service holds for the entity
MaxDeletes == 4     \* entity DELETE requests of one delete_entity call

(***************************************************************************)
(* Python values.                                                          *)
(***************************************************************************)
None == "None"
Absent == "<absent>"

Truthy(x) == x # None /\ x # ""

\* httplib status codes used by the driver
OK == 200
CREATED == 201
NO_CONTENT == 204
BAD_REQUEST == 400
CONFLICT == 409

valid_response_codes == {CONFLICT}

\* RackspaceMonitoringResponse.success
success(status) ==
    (status >= 200 /\ status <= 299) \/ status \in valid_response_codes

(***************************************************************************)
(* Bodies on the wire.  A body is empty, or text: fmt says whether the     *)
(* text is a JSON document (doc is then the value it encodes) or not.      *)
(* d is the document an empty or non-JSON body carries along unread.       *)
(***************************************************************************)
EmptyBody(d) == [fmt |-> "empty", doc |-> d]
TextBody(d) == [fmt |-> "text", doc |-> d]
JsonText(v) == [fmt |-> "json", doc |-> v]

\* json.loads: the decoded value, or a failure on text that is no JSON
json_loads(body) == [ok |-> body.fmt = "json", val |-> body.doc]

(***************************************************************************)
(* The response decoder: parse_body and parse_error.                       *)
(***************************************************************************)
\* the body of an error answer: a mapping over the keys code, type, message
\* and details; details is itself a mapping, with or without a key 'type'
ErrDoc(c, t, m, d) == [code |-> c, type |-> t, message |-> m, details |-> d]
Details(p, t) == [present |-> p, type |-> t]
NoDetails == Details(FALSE, Absent)
NullDoc == ErrDoc(Absent, Absent, Absent, NoDetails)

\* a parsed body: None, a decoded mapping, or the raw text
PyNone == [py |-> "None", doc |-> NullDoc]
PyDict(d) == [py |-> "dict", doc |-> d]
PyStr(d) == [py |-> "str", doc |-> d]

\* the header key parse_body finds the content type under
ContentTypeKey(headers) ==
    IF headers.lower # Absent THEN "content-type"
    ELSE IF headers.upper # Absent THEN "Content-Type"
    ELSE Absent

\* content_type.split(';')[0]: the media type without its parameters
MediaType(content_type) ==
    IF content_type = "application/json; charset=UTF-8"
    THEN "application/json"
    ELSE content_type

\* RackspaceMonitoringResponse.parse_body
parse_body(resp) ==
    IF resp.body.fmt = "empty" THEN [raised |-> None, val |-> PyNone]
    ELSE IF ContentTypeKey(resp.headers) = Absent
    THEN [raised |-> "LibcloudError: Missing content-type header",
          val |-> PyNone]
    ELSE LET content_type ==
                 MediaType(IF ContentTypeKey(resp.headers) = "content-type"
                           THEN resp.headers.lower ELSE resp.headers.upper)
         IN  IF content_type = "application/json"
             THEN IF json_loads(resp.body).ok
                  THEN [raised |-> None,
                        val |-> PyDict(json_loads(resp.body).val)]
                  ELSE [raised |-> "MalformedResponseError", val |-> PyNone]
             ELSE [raised |-> None, val |-> PyStr(resp.body.doc)]

\* RackspaceMonitoringValidationError.__init__
ValidationError(code, type, message, details) ==
    [code |-> code, type |-> type, message |-> message, details |-> details]

\* the statuses parse_error turns into a validation error
IsValidationStatusAny4xx(status) == status >= 400 /\ status <= 499
IsValidationStatus(status) == status = BAD_REQUEST

\* RackspaceMonitoringResponse.parse_error: the error raised (its kind and,
\* for a validation error, the error object) or the value returned
parse_error(resp) ==
    LET body == parse_body(resp)
        noerr == ValidationError(Absent, Absent, Absent, NoDetails)
    IN  IF body.raised # None
        THEN [raised |-> body.raised, error |-> noerr, ret |-> PyNone]
        ELSE IF IsValidationStatus(resp.status)
        THEN IF body.val.py # "dict"
             THEN [raised |-> "TypeError", error |-> noerr, ret |-> PyNone]
             ELSE IF \/ body.val.doc.message = Absent
                     \/ body.val.doc.code = Absent
                     \/ body.val.doc.type = Absent
                     \/ ~body.val.doc.details.present
             THEN [raised |-> "KeyError", error |-> noerr, ret |-> PyNone]
             ELSE [raised |-> "ValidationError",
                   error |-> ValidationError(body.val.doc.code,
                                             body.val.doc.type,
                                             body.val.doc.message,
                                             body.val.doc.details),
                   ret |-> PyNone]
        ELSE [raised |-> None, error |-> noerr, ret |-> body.val]

\* the responses parse_error is applied to
ErrStatuses == {BAD_REQUEST, 404, CONFLICT, OK}
ErrHeaders ==
    {[lower |-> l, upper |-> u] :
        l \in {Absent, "application/json", "text/plain"},
        u \in {Absent, "application/json; charset=UTF-8"}}
ErrDocs ==
    {ErrDoc(c, t, "bad input", d) :
        c \in {"400", Absent}, t \in {"invalidJson", "childrenExistError"},
        d \in {Details(TRUE, Absent), Details(TRUE, "Check"), NoDetails}}
ErrBodies ==
    {EmptyBody(NullDoc), TextBody(NullDoc)} \cup {JsonText(d) : d \in ErrDocs}
ErrResponses ==
    {[status |-> s, headers |-> h, body |-> b] :
        s \in ErrStatuses, h \in ErrHeaders, b \in ErrBodies}

ErrIdle ==
    /\ pe_in = [status |-> OK, headers |-> [lower |-> Absent, upper |-> Absent],
                body |-> EmptyBody(NullDoc)]
    /\ pe_out = [done |-> FALSE, raised |-> None,
                 error |-> ValidationError(Absent, Absent, Absent, NoDetails),
                 ret |-> PyNone]

\* a response arrives and parse_error is applied to it
ParseError(resp) ==
    /\ ~pe_out.done
    /\ pe_in' = resp
    /\ pe_out' = [done |-> TRUE, raised |-> parse_error(resp).raised,
                  error |-> parse_error(resp).error,
                  ret |-> parse_error(resp).ret]
    /\ UNCHANGED <<pageVars, urlVars, writeVars, delVars>>

DecodeError == \E resp \in ErrResponses : ParseError(resp)

(***************************************************************************)
(* Cursor pagination: _get_more and the LazyList that drives it.           *)
(***************************************************************************)
Markers == {"", "a", "b"}               \* the values a next_marker can take
StartMarkers == {None, "s"}             \* ex_next_marker of the list_* calls
PageValues == {<<>>, <<"x">>, <<"y", "x">>}   \* the 'values' of a page

\* the query parameters of a request: a mapping over the keys limit, marker
NoParams == [limit |-> Absent, marker |-> Absent]

\* the JSON document of a page, and of an error answer
PageDoc(v, m) == [values |-> v, next_marker |-> m, details |-> Absent]
ErrorDoc(d) == [values |-> <<>>, next_marker |-> None, details |-> d]

\* what the service can answer to a page request
PageResponses ==
    {[status |-> OK, body |-> JsonText(PageDoc(v, m))] :
        v \in PageValues, m \in Markers \cup {None}}
    \cup {[status |-> NO_CONTENT, body |-> EmptyBody(PageDoc(<<>>, None))],
          [status |-> CONFLICT, body |-> JsonText(ErrorDoc("conflict"))],
          [status |-> BAD_REQUEST, body |-> JsonText(ErrorDoc("bad marker"))]}

\* the descriptors _get_more is given: list_checks and the like give a
\* start_marker, list_audits gives params; a value_dict may hold either
Descriptors ==
    {[url |-> "/entities/en1/checks", start_marker |-> s, has_params |-> p,
      params |-> IF p THEN [limit |-> "200", marker |-> Absent] ELSE NoParams,
      mapper |-> f, entity_id |-> "en1"] :
        s \in StartMarkers, p \in BOOLEAN,
        f \in {"list_item_mapper", "object_mapper"}}

\* a list_item_mapper (_to_check and the like): one object per raw item,
\* built from the item and the descriptor
list_item_mapper(x, vd) == [raw |-> <<x>>, entity_id |-> vd.entity_id]

\* an object_mapper: the objects of a page, built from the whole document
object_mapper(doc, vd) == <<[raw |-> doc.values, entity_id |-> vd.entity_id]>>

\* lines 215-219 of _get_more: the objects of one page
MapPage(doc, vd) ==
    IF vd.mapper = "list_item_mapper"
    THEN [i \in 1..Len(doc.values) |-> list_item_mapper(doc.values[i], vd)]
    ELSE object_mapper(doc, vd)

\* connection.request as _get_more sees it: a response whose status is no
\* success is turned into an error by the response class (parse_error)
RequestRaises(resp) ==
    IF success(resp.status) THEN None
    ELSE IF resp.status = BAD_REQUEST THEN "ValidationError"
    ELSE "Exception"

\* the marker _get_more chooses (lines 198-201)
GetMoreKey(lk, vd) == IF ~Truthy(lk) THEN vd.start_marker ELSE lk

\* the parameters _get_more sends (lines 196, 203-204): the descriptor's own
\* params mapping when it has one, a new mapping otherwise
GetMoreParams(lk, vd) ==
    LET params == IF vd.has_params THEN vd.params ELSE NoParams
        key == GetMoreKey(lk, vd)
    IN  IF Truthy(key) THEN [params EXCEPT !.marker = key] ELSE params

\* what _get_more returns for a 'no content' answer (line 210)
NoContentResult == [items |-> <<>>, key |-> None, exhausted |-> FALSE]

\* what _get_more returns for an OK answer (lines 212-221)
OkResult(doc, vd) ==
    [items |-> MapPage(doc, vd), key |-> doc.next_marker,
     exhausted |-> (doc.next_marker = None)]

\* _get_more(last_key, value_dict) answered with resp: the parameters sent,
\* the descriptor afterwards, and the triple returned or the error raised
get_more(lk, vd, resp) ==
    LET sent == GetMoreParams(lk, vd)
        vd2 == IF vd.has_params THEN [vd EXCEPT !.params = sent] ELSE vd
        none == [items |-> <<>>, key |-> None, exhausted |-> FALSE]
    IN  IF RequestRaises(resp) # None
        THEN [sent |-> sent, vd |-> vd2, raised |-> RequestRaises(resp),
              ret |-> none]
        ELSE IF resp.status = NO_CONTENT
        THEN [sent |-> sent, vd |-> vd2, raised |-> None,
              ret |-> NoContentResult]
        ELSE IF resp.status = OK
        THEN IF json_loads(resp.body).ok
             THEN [sent |-> sent, vd |-> vd2, raised |-> None,
                   ret |-> OkResult(json_loads(resp.body).val, vd2)]
             ELSE [sent |-> sent, vd |-> vd2, raised |-> "ValueError",
                   ret |-> none]
        ELSE IF json_loads(resp.body).ok
        THEN [sent |-> sent, vd |-> vd2, ret |-> none,
              raised |-> "LibcloudError: Unexpected status code"]
        ELSE [sent |-> sent, vd |-> vd2, raised |-> "ValueError", ret |-> none]

\* the state of a new LazyList(get_more=self._get_more, value_dict=value_dict)
NewList(vd) ==
    /\ value_dict = vd
    /\ last_key = None
    /\ exhausted = FALSE
    /\ data = <<>>
    /\ reqs = <<>>
    /\ resps = <<>>
    /\ page_err = None

\* one turn of LazyList._load_all: while not exhausted, call _get_more with
\* the last key, take over the key and the flag it returns and extend the
\* data; an error of _get_more leaves the list as it was
LoadStep(resp) ==
    /\ ~exhausted
    /\ LET r == get_more(last_key, value_dict, resp)
       IN  /\ reqs' = Append(reqs, r.sent)
           /\ resps' = Append(resps, resp)
           /\ value_dict' = r.vd
           /\ page_err' = r.raised
           /\ IF r.raised = None
              THEN /\ data' = data \o r.ret.items
                   /\ last_key' = r.ret.key
                   /\ exhausted' = r.ret.exhausted
              ELSE UNCHANGED <<data, last_key, exhausted>>

\* a consumer asks a paged sequence for more; the service answers with resp
Load(resp) ==
    /\ Len(reqs) < MaxPages
    /\ LoadStep(resp)
    /\ UNCHANGED <<urlVars, writeVars, errVars, delVars>>

LoadPage == \E resp \in PageResponses : Load(resp)

(***************************************************************************)
(* The location resolver: _plural_to_singular and _url_to_obj_ids.         *)
(* A url is a sequence of tokens: "/" and the pieces of text between the   *)
(* slashes ("https:" is the scheme with its colon).                        *)
(***************************************************************************)
Slash == "/"

\* kv of _plural_to_singular; a name is the sequence of its camel-case words,
\* each in lower case with cap telling whether it is written capitalised
Word(t, c) == [text |-> t, cap |-> c]
kv(name) ==
    CASE name = "entities" -> <<Word("entity", FALSE)>>
      [] name = "alarms" -> <<Word("alarm", FALSE)>>
      [] name = "checks" -> <<Word("check", FALSE)>>
      [] name = "notifications" -> <<Word("notification", FALSE)>>
      [] name = "notification_plans" ->
             <<Word("notification", FALSE), Word("plan", TRUE)>>
      [] OTHER -> <<>>

PluralNames ==
    {"entities", "alarms", "checks", "notifications", "notification_plans"}

\* _plural_to_singular: kv[name], a KeyError for a name kv does not hold
plural_to_singular(name) ==
    IF name \in PluralNames THEN [ok |-> TRUE, val |-> kv(name)]
    ELSE [ok |-> FALSE, val |-> <<>>]

\* utils.to_underscore_separated: an underscore before every capitalised
\* word that follows a letter, and the whole in lower case
RECURSIVE to_underscore_separated(_)
to_underscore_separated(name) ==
    IF name = <<>> THEN ""
    ELSE LET last == name[Len(name)]
             front == SubSeq(name, 1, Len(name) - 1)
         IN  IF last.cap /\ front # <<>>
             THEN to_underscore_separated(front) \o "_" \o last.text
             ELSE to_underscore_separated(front) \o last.text

\* urlparse.urlparse(url).path: a url that starts with a scheme and // loses
\* them and the host that follows; what is left from the next slash on is
\* the path
RECURSIVE FromSlash(_)
FromSlash(toks) ==
    IF toks = <<>> THEN <<>>
    ELSE IF Head(toks) = Slash THEN toks
    ELSE FromSlash(Tail(toks))

urlparse_path(url) ==
    IF Len(url) >= 3 /\ url[1] = "https:" /\ url[2] = Slash /\ url[3] = Slash
    THEN FromSlash(SubSeq(url, 4, Len(url)))
    ELSE url

\* path.startswith(rp)
startswith(path, rp) ==
    Len(rp) <= Len(path) /\ SubSeq(path, 1, Len(rp)) = rp

\* path.split('/'): the pieces of text between the slashes, the empty ones
\* included
RECURSIVE split(_)
split(toks) ==
    IF toks = <<>> THEN <<"">>
    ELSE LET rest == split(Tail(toks))
         IN  IF Head(toks) = Slash THEN <<"">> \o rest
             ELSE <<Head(toks) \o Head(rest)>> \o Tail(rest)

\* the mapping _url_to_obj_ids fills: one key per kind of object
NoIds == [entity_id |-> Absent, alarm_id |-> Absent, check_id |-> Absent,
          notification_id |-> Absent, notification_plan_id |-> Absent]

\* the loop of _url_to_obj_ids (lines 249-252) from chunk i on
RECURSIVE UrlLoop(_, _, _)
UrlLoop(chunks, i, rv) ==
    IF i > Len(chunks) THEN [raised |-> None, rv |-> rv]
    ELSE IF ~plural_to_singular(chunks[i]).ok
    THEN [raised |-> "KeyError", rv |-> NoIds]
    ELSE IF i + 1 > Len(chunks)
    THEN [raised |-> "IndexError", rv |-> NoIds]
    ELSE LET key == to_underscore_separated(
                        plural_to_singular(chunks[i]).val
                        \o <<Word("_id", FALSE)>>)
         IN  UrlLoop(chunks, i + 2, [rv EXCEPT ![key] = chunks[i + 1]])

\* the chunks _url_to_obj_ids walks (line 247)
ChunksKeepFirst(path) == split(path)
Chunks(path) == Tail(split(path))

\* the path _url_to_obj_ids splits (lines 243-245)
StripPrefix(path, rp) ==
    IF startswith(path, rp) THEN SubSeq(path, Len(rp) + 1, Len(path))
    ELSE path

\* _url_to_obj_ids with connection.request_path = rp
url_to_obj_ids(url, rp) ==
    UrlLoop(Chunks(StripPrefix(urlparse_path(url), rp)), 1, NoIds)

\* the locations the resolver is given: an optional scheme and host, an
\* optional request path, and then /collection/id pairs
Collections == PluralNames \cup {"agents"}
Ids == {"enABC", "chDEF"}
Pairs == {[coll |-> c, id |-> i] : c \in Collections, i \in Ids}
PairSeqs == UNION {[1..k -> Pairs] : k \in 1..MaxPairs}
RequestPaths == {<<>>, <<Slash, "v1.0", Slash, "12345">>}

RECURSIVE PairsPath(_)
PairsPath(ps) ==
    IF ps = <<>> THEN <<>>
    ELSE <<Slash, Head(ps).coll, Slash, Head(ps).id>> \o PairsPath(Tail(ps))

Location(absolute, prefix, ps) ==
    [url |-> (IF absolute THEN <<"https:", Slash, Slash, "host">> ELSE <<>>)
             \o prefix \o PairsPath(ps),
     pairs |-> ps]

UrlIdle(loc, rp) ==
    /\ loc_url = loc
    /\ request_path = rp
    /\ loc_out = [done |-> FALSE, raised |-> None, rv |-> NoIds]

\* _url_to_obj_ids is applied to the location
Resolve ==
    /\ ~loc_out.done
    /\ loc_out' = [done |-> TRUE,
                   raised |-> url_to_obj_ids(loc_url.url, request_path).raised,
                   rv |-> url_to_obj_ids(loc_url.url, request_path).rv]
    /\ UNCHANGED <<loc_url, request_path>>
    /\ UNCHANGED <<pageVars, writeVars, errVars, delVars>>


(***************************************************************************)
(* The create / update flow: _create and _update.                          *)
(***************************************************************************)
\* the values a field of the data mapping can hold: None, a text, and the
\* present-but-empty values 0, [], {} and ''
PyZero == "int:0"
PyEmptyList == "list:[]"
PyEmptyDict == "dict:{}"

\* the data mappings: over the keys label, who, details; Absent = no such key
DataMaps ==
    {[label |-> l, who |-> w, details |-> d] :
        l \in {Absent, None, "x", ""},
        w \in {Absent, None, "x", PyZero},
        d \in {Absent, None, PyEmptyList, PyEmptyDict}}
NoData == [label |-> Absent, who |-> Absent, details |-> Absent]

\* data[k] == None
IsFalsy(v) == v \in {None, PyZero, PyEmptyList, PyEmptyDict, ""}
IsNone(v) == v = None

\* lines 257-259 / 274-276: del data[k] for every k with data[k] == None
strip_none(d) ==
    [k \in DOMAIN d |-> IF d[k] # Absent /\ IsNone(d[k]) THEN Absent ELSE d[k]]

\* the answers of the service to a POST or PUT
WriteStatuses == {CREATED, NO_CONTENT, OK, CONFLICT, BAD_REQUEST, 404}
LocationHeaders ==
    {[present |-> FALSE, url |-> <<>>], [present |-> TRUE, url |-> <<>>]}
    \cup {[present |-> TRUE, url |-> <<Slash, "v1.0", Slash, "12345">> \o p] :
            p \in {<<Slash, "entities", Slash, "enABC">>,
                   <<Slash, "entities", Slash, "enABC",
                     Slash, "checks", Slash, "chDEF">>,
                   <<Slash, "agents", Slash, "agXYZ">>}}
WriteResponses ==
    {[status |-> st, location |-> l, body_id |-> "enBODY"] :
        st \in WriteStatuses, l \in LocationHeaders}

\* what a call does, in order: requests sent and constructor calls
RequestEvent(method, d) ==
    [ev |-> "request", method |-> method, data |-> JsonText(d), kwargs |-> NoIds]
ConstructEvent(ids) ==
    [ev |-> "construct", method |-> None, data |-> JsonText(NoData),
     kwargs |-> ids]

\* resp.headers.get('location')
GetLocation(resp) ==
    IF resp.location.present THEN resp.location.url ELSE <<>>
HasLocation(resp) == resp.location.present /\ resp.location.url # <<>>

\* the ids the constructor is called with (lines 268, 286)
IdsFromBody(resp, rp) == [raised |-> None,
                          rv |-> [NoIds EXCEPT !.entity_id = resp.body_id]]
IdsFromLocation(resp, rp) == url_to_obj_ids(GetLocation(resp), rp)

\* lines 264-271 / 279-289: what follows the write request, the response
\* having the status `expected` or not
AfterWrite(resp, expected, rp) ==
    IF resp.status = expected
    THEN IF ~HasLocation(resp)
         THEN [raised |-> "LibcloudError: Missing location header",
               events |-> <<>>]
         ELSE IF IdsFromLocation(resp, rp).raised # None
         THEN [raised |-> IdsFromLocation(resp, rp).raised, events |-> <<>>]
         ELSE [raised |-> None,
               events |-> <<ConstructEvent(IdsFromLocation(resp, rp).rv)>>]
    ELSE [raised |-> "LibcloudError: Unexpected status code", events |-> <<>>]

\* the status _create and _update require
CreateStatus == CREATED
UpdateStatus == NO_CONTENT

\* _create / _update: the data mapping afterwards, the events, the error
WriteFlow(method, expected, d, resp, rp) ==
    LET stripped == strip_none(d)
        sent == <<RequestEvent(method, stripped)>>
    IN  IF RequestRaises(resp) # None
        THEN [data |-> stripped, events |-> sent,
              raised |-> RequestRaises(resp)]
        ELSE [data |-> stripped,
              events |-> sent \o AfterWrite(resp, expected, rp).events,
              raised |-> AfterWrite(resp, expected, rp).raised]

create(d, resp, rp) == WriteFlow("POST", CreateStatus, d, resp, rp)
update(d, resp, rp) == WriteFlow("PUT", UpdateStatus, d, resp, rp)

WriteRequestPath == <<Slash, "v1.0", Slash, "12345">>

WriteIdle ==
    /\ wr_in = [method |-> None, data |-> NoData,
                resp |-> [status |-> OK,
                          location |-> [present |-> FALSE, url |-> <<>>],
                          body_id |-> "enBODY"]]
    /\ wr_out = [done |-> FALSE, data |-> NoData, events |-> <<>>,
                 raised |-> None]

\* a call of _create, answered with resp
Create(d, resp) ==
    /\ ~wr_out.done
    /\ wr_in' = [method |-> "POST", data |-> d, resp |-> resp]
    /\ wr_out' = [done |-> TRUE,
                  data |-> create(d, resp, WriteRequestPath).data,
                  events |-> create(d, resp, WriteRequestPath).events,
                  raised |-> create(d, resp, WriteRequestPath).raised]
    /\ UNCHANGED <<pageVars, urlVars, errVars, delVars>>

\* a call of _update, answered with resp
Update(d, resp) ==
    /\ ~wr_out.done
    /\ wr_in' = [method |-> "PUT", data |-> d, resp |-> resp]
    /\ wr_out' = [done |-> TRUE,
                  data |-> update(d, resp, WriteRequestPath).data,
                  events |-> update(d, resp, WriteRequestPath).events,
                  raised |-> update(d, resp, WriteRequestPath).raised]
    /\ UNCHANGED <<pageVars, urlVars, errVars, delVars>>

CreateCall == \E d \in DataMaps, resp \in WriteResponses : Create(d, resp)
UpdateCall == \E d \in DataMaps, resp \in WriteResponses : Update(d, resp)


(***************************************************************************)
(* Deleting an entity: delete_entity, ex_delete_checks, ex_delete_alarms,  *)
(* against a service that holds the entity with its checks and alarms.     *)
(***************************************************************************)
PageLimit == 1      \* the children the service puts on one page
MaxListReqs == 4    \* page requests of one listing of children

Digits == <<"1", "2", "3", "4", "5", "6", "7", "8", "9">>
CheckId(i) == "ch" \o Digits[i]
AlarmId(i) == "al" \o Digits[i]
ChildId(kind, i) == IF kind = "Check" THEN CheckId(i) ELSE AlarmId(i)

\* the service's children of one kind, as the set of their numbers
Children(kind) == IF kind = "Check" THEN svc.checks ELSE svc.alarms

RECURSIVE Sorted(_)
Sorted(S) ==
    IF S = {} THEN <<>>
    ELSE LET m == CHOOSE x \in S : \A y \in S : x <= y
         IN  <<m>> \o Sorted(S \ {m})

\* the page of a listing the service answers a request with: the children
\* from the marker on, PageLimit of them, and the id of the one after them
SvcPage(kind, marker) ==
    LET all == Children(kind)
        from == IF marker = Absent THEN all
                ELSE {i \in all : \E j \in 1..i : ChildId(kind, j) = marker}
        ids == Sorted(from)
        n == IF Len(ids) < PageLimit THEN Len(ids) ELSE PageLimit
    IN  [status |-> OK,
         body |-> JsonText(PageDoc(
             [k \in 1..n |-> ChildId(kind, ids[k])],
             IF Len(ids) > n THEN ChildId(kind, ids[n + 1]) ELSE None))]

\* an empty listing is answered with an empty page or with 'no content'
SvcListAnswers(kind, marker) ==
    IF Children(kind) = {}
    THEN {SvcPage(kind, marker),
          [status |-> NO_CONTENT, body |-> EmptyBody(PageDoc(<<>>, None))]}
    ELSE {SvcPage(kind, marker)}

\* the validation errors the service rejects an entity DELETE with
RejectDocs ==
    {ErrDoc("400", t, "rejected", d) :
        t \in {"childrenExistError", "notAllowedError"},
        d \in {Details(TRUE, "Check"), Details(TRUE, "Alarm"),
               Details(TRUE, "Agent"), Details(TRUE, Absent)}}
JsonHeaders == [lower |-> "application/json", upper |-> Absent]
RejectResponse(doc) ==
    [status |-> BAD_REQUEST, headers |-> JsonHeaders, body |-> JsonText(doc)]
DeletedResponse ==
    [status |-> NO_CONTENT, headers |-> JsonHeaders, body |-> EmptyBody(NullDoc)]

\* the service's answers to DELETE /entities/<id>: it rejects the delete
\* while the entity has a child
SvcDeleteAnswers ==
    IF svc.checks = {} /\ svc.alarms = {} THEN {DeletedResponse}
    ELSE {RejectResponse(d) : d \in RejectDocs}

\* list_checks / list_alarms: the descriptor of the listing
ListDescriptor(kind) ==
    [url |-> IF kind = "Check" THEN "/entities/en1/checks"
             ELSE "/entities/en1/alarms",
     start_marker |-> None, has_params |-> FALSE, params |-> NoParams,
     mapper |-> "list_item_mapper", entity_id |-> "en1"]

\* one request of a delete_entity call, as the service saw it
DelEvent(op, arg, etype) ==
    [op |-> op, arg |-> arg, etype |-> etype,
     checks_left |-> svc.checks, alarms_left |-> svc.alarms]

DelIdle(nchecks, nalarms) ==
    /\ svc = [exists |-> TRUE, checks |-> 1..nchecks, alarms |-> 1..nalarms]
    /\ de = [pc |-> "idle", ex_delete_children |-> FALSE, kind |-> None,
             iter |-> 0, raised |-> None, result |-> FALSE, log |-> <<>>]

\* delete_entity(entity, ex_delete_children) is called
CallDeleteEntity(flag) ==
    /\ de.pc = "idle"
    /\ de' = [de EXCEPT !.pc = "delete", !.ex_delete_children = flag]
    /\ UNCHANGED <<svc, pageVars, urlVars, writeVars, errVars>>

\* the except clause of delete_entity (lines 563-573) for the error e: the
\* error it raises, or the kind of children it deletes before it calls
\* delete_entity again ("" when it deletes none)
HandlerNoChildren(e, flag) ==
    IF e.details.type = Absent THEN [raised |-> "KeyError", kind |-> None]
    ELSE IF ~flag \/ e.type # "childrenExistError"
    THEN [raised |-> "ValidationError", kind |-> None]
    ELSE [raised |-> None, kind |-> ""]
HandlerOtherKind(e, flag) ==
    IF e.details.type = Absent THEN [raised |-> "KeyError", kind |-> None]
    ELSE IF ~flag \/ e.type # "childrenExistError"
    THEN [raised |-> "ValidationError", kind |-> None]
    ELSE IF e.details.type = "Check" THEN [raised |-> None, kind |-> "Alarm"]
    ELSE IF e.details.type = "Alarm" THEN [raised |-> None, kind |-> "Check"]
    ELSE [raised |-> None, kind |-> ""]
Handler(e, flag) ==
    IF e.details.type = Absent THEN [raised |-> "KeyError", kind |-> None]
    ELSE IF ~flag \/ e.type # "childrenExistError"
    THEN [raised |-> "ValidationError", kind |-> None]
    ELSE IF e.details.type \in {"Check", "Alarm"}
    THEN [raised |-> None, kind |-> e.details.type]
    ELSE [raised |-> None, kind |-> ""]

\* the loop of ex_delete_checks / ex_delete_alarms has deleted every child
\* the listing gave
ChildrenDone ==
    /\ de.pc = "children"
    /\ exhausted
    /\ de.iter = Len(data)

\* the DELETE of the entity (line 561), first or again, answered with resp
EntityDelete(resp) ==
    /\ de.pc = "delete" \/ ChildrenDone
    /\ Len(SelectSeq(de.log, LAMBDA ev : ev.op = "DELETE entity")) < MaxDeletes
    /\ LET ev == DelEvent("DELETE entity",
                          IF success(resp.status) THEN "deleted"
                          ELSE parse_error(resp).error.details.type,
                          IF success(resp.status) THEN None
                          ELSE parse_error(resp).error.type)
           log == Append(de.log, ev)
       IN  IF success(resp.status)
           THEN /\ svc' = [svc EXCEPT !.exists = FALSE]
                /\ de' = [de EXCEPT !.pc = "returned", !.log = log,
                                    !.result = (resp.status = NO_CONTENT)]
                /\ UNCHANGED pageVars
           ELSE LET h == Handler(parse_error(resp).error,
                                 de.ex_delete_children)
                IN  /\ svc' = svc
                    /\ IF h.raised # None
                       THEN /\ de' = [de EXCEPT !.pc = "raised", !.log = log,
                                                !.raised = h.raised]
                            /\ UNCHANGED pageVars
                       ELSE IF h.kind = ""
                       THEN /\ de' = [de EXCEPT !.pc = "delete", !.log = log]
                            /\ UNCHANGED pageVars
                       ELSE /\ de' = [de EXCEPT !.pc = "children",
                                                !.kind = h.kind, !.iter = 0,
                                                !.log = log]
                            /\ value_dict' = ListDescriptor(h.kind)
                            /\ last_key' = None
                            /\ exhausted' = FALSE
                            /\ data' = <<>>
                            /\ reqs' = <<>>
                            /\ resps' = <<>>
                            /\ page_err' = None
    /\ UNCHANGED <<urlVars, writeVars, errVars>>

\* iterating the listing loads it whole first: one page request
ListChildren(resp) ==
    /\ de.pc = "children"
    /\ Len(reqs) < MaxListReqs
    /\ LoadStep(resp)
    /\ de' = [de EXCEPT !.log = Append(@, DelEvent("GET children", de.kind,
                                                   None))]
    /\ UNCHANGED <<svc, urlVars, writeVars, errVars>>

\* delete_check / delete_alarm for the next child of the listing
DeleteChild ==
    /\ de.pc = "children"
    /\ exhausted
    /\ de.iter < Len(data)
    /\ LET id == data[de.iter + 1].raw[1]
       IN  /\ svc' = IF de.kind = "Check"
                     THEN [svc EXCEPT !.checks =
                               {i \in @ : CheckId(i) # id}]
                     ELSE [svc EXCEPT !.alarms =
                               {i \in @ : AlarmId(i) # id}]
           /\ de' = [de EXCEPT !.iter = @ + 1,
                               !.log = Append(@, DelEvent("DELETE child", id,
                                                          None))]
    /\ UNCHANGED <<pageVars, urlVars, writeVars, errVars>>

DeleteEntityRequest == \E resp \in SvcDeleteAnswers : EntityDelete(resp)
ListChildrenRequest ==
    \E resp \in SvcListAnswers(de.kind,
                               GetMoreParams(last_key, value_dict).marker) :
        ListChildren(resp)
CallDelete == \E flag \in BOOLEAN : CallDeleteEntity(flag)

(***************************************************************************)
(* Specifications.                                                         *)
(***************************************************************************)
PageIdle == NewList(CHOOSE vd \in Descriptors : TRUE)
UrlIdleAny == UrlIdle(Location(FALSE, <<>>, <<>>), <<>>)

\* paged sequences: a new LazyList for any descriptor, loaded page by page
InitPage ==
    /\ \E vd \in Descriptors : NewList(vd)
    /\ UrlIdleAny /\ WriteIdle /\ ErrIdle /\ DelIdle(0, 0)
NextPage == LoadPage
SpecPage == InitPage /\ [][NextPage]_vars

\* the resolver applied to a location
InitUrl ==
    /\ \E rp \in RequestPaths, absolute \in BOOLEAN, prefixed \in BOOLEAN,
          ps \in PairSeqs :
          UrlIdle(Location(absolute, IF prefixed THEN rp ELSE <<>>, ps), rp)
    /\ PageIdle /\ WriteIdle /\ ErrIdle /\ DelIdle(0, 0)
NextUrl == Resolve
SpecUrl == InitUrl /\ [][NextUrl]_vars

\* one call of _create or _update
InitWrite == PageIdle /\ UrlIdleAny /\ WriteIdle /\ ErrIdle /\ DelIdle(0, 0)
NextWrite == CreateCall \/ UpdateCall
SpecWrite == InitWrite /\ [][NextWrite]_vars

\* parse_error applied to a response
InitErr == PageIdle /\ UrlIdleAny /\ WriteIdle /\ ErrIdle /\ DelIdle(0, 0)
NextErr == DecodeError
SpecErr == InitErr /\ [][NextErr]_vars

\* one call of delete_entity against the service
InitDelete ==
    /\ \E nc \in 0..MaxChecks, na \in 0..MaxAlarms : DelIdle(nc, na)
    /\ PageIdle /\ UrlIdleAny /\ WriteIdle /\ ErrIdle
NextDelete ==
    CallDelete \/ DeleteEntityRequest \/ ListChildrenRequest \/ DeleteChild
SpecDelete == InitDelete /\ [][NextDelete]_vars


(***************************************************************************)
(* Properties of the paged sequence (SpecPage).                            *)
(***************************************************************************)
\* request n was answered with a page: the request raised nothing and
\* _get_more returned
Fetched(n) ==
    /\ RequestRaises(resps[n]) = None
    /\ resps[n].status \in {OK, NO_CONTENT}

\* a page that names a next page, and a page that ends the sequence
IsInnerPage(r) == r.status = OK /\ r.body.doc.next_marker # None
IsLastPage(r) ==
    \/ r.status = NO_CONTENT
    \/ r.status = OK /\ r.body.doc.next_marker = None

\* the answers so far are a finite sequence of pages, the last one ending it
FinitePages ==
    /\ Len(resps) >= 1
    /\ IsLastPage(resps[Len(resps)])
    /\ \A i \in 1..(Len(resps) - 1) : IsInnerPage(resps[i])

\* the mapped items of the pages, in page order
RECURSIVE ConcatPages(_, _)
ConcatPages(rs, vd) ==
    IF rs = <<>> THEN <<>>
    ELSE (IF Head(rs).status = OK THEN MapPage(Head(rs).body.doc, vd)
          ELSE <<>>) \o ConcatPages(Tail(rs), vd)

\* C1: once a new sequence has been driven through a finite sequence of
\* pages that ends with a null next_marker or with 'no content', it is
\* exhausted (the driving has ended) and its items are the concatenation of
\* the mapped items of the pages, in page order.
C1_FinitePagesEndExhausted ==
    FinitePages => exhausted /\ data = ConcatPages(resps, value_dict)

\* C2: the request that follows a page with next_marker = m, m not null,
\* carries marker = m.
C2_NextRequestCarriesMarker ==
    \A n \in 1..(Len(reqs) - 1) :
        IsInnerPage(resps[n]) =>
            reqs[n + 1].marker = resps[n].body.doc.next_marker

\* the service hands out every marker once, and no empty one
FreshMarkers ==
    /\ \A i \in 1..Len(resps) :
           IsInnerPage(resps[i]) => resps[i].body.doc.next_marker # ""
    /\ \A i, j \in 1..Len(resps) :
           (i < j /\ IsInnerPage(resps[i]) /\ IsInnerPage(resps[j])) =>
               resps[i].body.doc.next_marker # resps[j].body.doc.next_marker

\* the last request was answered with a page
FetchedLast == Len(resps) >= 1 /\ Fetched(Len(resps))

\* no request asks for a page that an earlier request has fetched
NoRefetch ==
    FreshMarkers =>
        \A i, j \in 1..Len(reqs) :
            (i < j /\ Fetched(i)) => reqs[j].marker # reqs[i].marker

\* C3: no fetched page is requested again, the cursor changes only with a
\* page fetch that succeeded, and exhausted stays true once it is true.
C3_NoRefetchMonotoneCursor ==
    [][/\ NoRefetch'
       /\ (last_key' # last_key =>
               (Len(resps') = Len(resps) + 1 /\ FetchedLast'))
       /\ (exhausted => exhausted')]_vars

\* C9: a page request answered with 'no content' adds no item, sets the
\* cursor to null and sets exhausted.
C9_NoContentExhausts ==
    [][(Len(resps') = Len(resps) + 1
        /\ resps'[Len(resps')].status = NO_CONTENT)
       => (data' = data /\ last_key' = None /\ exhausted')]_vars

\* the last page fetched before request n
LastFetchedBefore(n) ==
    CHOOSE k \in 1..(n - 1) :
        Fetched(k) /\ \A j \in (k + 1)..(n - 1) : ~Fetched(j)

\* C10: for a descriptor with a start cursor, a request that follows a
\* fetched page carries the cursor that page returned (no marker for a null
\* cursor) and never the start cursor.
C10_StartCursorOnlyFirst ==
    value_dict.start_marker # None =>
        \A n \in 2..Len(reqs) :
            (\E k \in 1..(n - 1) : Fetched(k)) =>
                LET cursor ==
                        resps[LastFetchedBefore(n)].body.doc.next_marker
                IN  /\ reqs[n].marker # value_dict.start_marker
                    /\ reqs[n].marker =
                           (IF cursor = None THEN Absent ELSE cursor)


\* C13: a call of _get_more leaves the descriptor as it was: its url, its
\* start marker, its extra params and its mapper; stated for the descriptors
\* without a start marker, as list_audits builds them.
C13_DescriptorUnchanged ==
    [][(Len(reqs') = Len(reqs) + 1 /\ value_dict.start_marker = None)
       => value_dict' = value_dict]_vars

(***************************************************************************)
(* Properties of delete_entity (SpecDelete).                               *)
(***************************************************************************)
\* the entity DELETE requests of the call, as positions of the log
EntityDeletes == {j \in 1..Len(de.log) : de.log[j].op = "DELETE entity"}

\* the entity DELETE before the one at position j
PreviousDelete(j) ==
    CHOOSE i \in EntityDeletes :
        i < j /\ \A k \in EntityDeletes : k < j => k <= i

\* C4: an entity DELETE that follows one rejected with details.type =
\* "Check" is issued when the service holds no check of the entity any more,
\* and when delete_entity has returned the entity is gone from the service.
C4_ChecksDeletedBeforeRetry ==
    /\ \A j \in EntityDeletes :
           (/\ \E i \in EntityDeletes : i < j
            /\ de.log[PreviousDelete(j)].arg = "Check")
           => de.log[j].checks_left = {}
    /\ de.pc = "returned" => ~svc.exists

\* C4 happens: with 2 checks and 1 alarm, the first DELETE was rejected with
\* details.type = "Check", three children were deleted and the call returned
C4_Witness ==
    /\ de.pc = "returned"
    /\ de.ex_delete_children
    /\ de.log[1].arg = "Check"
    /\ de.log[1].checks_left = {1, 2}
    /\ Len(SelectSeq(de.log, LAMBDA ev : ev.op = "DELETE child")) = 3
    /\ \E j \in 1..Len(de.log) : de.log[j].arg = "al1"

\* the requests of the call between the entity DELETEs at positions i and j
Between(i, j) == {k \in 1..Len(de.log) : i < k /\ k < j}

\* the ids of the children of one kind
KindIds(kind) ==
    IF kind = "Check" THEN {CheckId(n) : n \in 1..MaxChecks + 1}
    ELSE IF kind = "Alarm" THEN {AlarmId(n) : n \in 1..MaxAlarms + 1}
    ELSE {}

\* every rejection of the call names a kind of which the entity has a child
TruthfulRejections ==
    \A i \in EntityDeletes :
        de.log[i].arg # "deleted" =>
            /\ de.log[i].etype = "childrenExistError"
            /\ \/ de.log[i].arg = "Check" /\ de.log[i].checks_left # {}
               \/ de.log[i].arg = "Alarm" /\ de.log[i].alarms_left # {}

\* C11 as stated: with ex_delete_children, a second entity DELETE is issued
\* when all checks and all alarms are deleted, and no third one is issued.
C11_AsClaimed ==
    (de.ex_delete_children /\ TruthfulRejections) =>
        /\ Cardinality(EntityDeletes) <= 2
        /\ \A j \in EntityDeletes :
               (\E i \in EntityDeletes : i < j) =>
                   de.log[j].checks_left = {} /\ de.log[j].alarms_left = {}

\* C11: an entity DELETE is issued again only with ex_delete_children after
\* a rejection with childrenExistError; between the two, delete_entity
\* lists and deletes the children of the kind details.type names and no
\* other (none for a kind that is neither Check nor Alarm), so that no child
\* of that kind is left and the children of the other kind are untouched.
C11_DeletesNamedKindThenRetries ==
    \A j \in EntityDeletes :
        (\E i \in EntityDeletes : i < j) =>
            LET i == PreviousDelete(j)
                kind == de.log[i].arg
            IN  /\ de.ex_delete_children
                /\ de.log[i].etype = "childrenExistError"
                /\ \A k \in Between(i, j) :
                       \/ de.log[k].op = "GET children" /\ de.log[k].arg = kind
                       \/ /\ de.log[k].op = "DELETE child"
                          /\ de.log[k].arg \in KindIds(kind)
                /\ de.log[j].checks_left =
                       (IF kind = "Check" THEN {} ELSE de.log[i].checks_left)
                /\ de.log[j].alarms_left =
                       (IF kind = "Alarm" THEN {} ELSE de.log[i].alarms_left)

\* C11 happens: with ex_delete_children the first entity DELETE was rejected
\* for the checks, the second for the alarms, and the third one succeeded
C11_Witness ==
    /\ de.pc = "returned"
    /\ de.ex_delete_children
    /\ TruthfulRejections
    /\ Cardinality(EntityDeletes) = 3
    /\ de.log[1].arg = "Check"
    /\ \E j \in EntityDeletes : de.log[j].arg = "Alarm"
    /\ \E k \in 1..Len(de.log) : de.log[k].arg = "ch2"

\* the entity DELETE at position i was rejected with an error that
\* delete_entity is not to recover from
NotRecoverable(i) ==
    /\ de.log[i].arg # "deleted"
    /\ ~de.ex_delete_children \/ de.log[i].etype # "childrenExistError"

\* C12: an entity DELETE rejected without ex_delete_children, or with a
\* validation error of another type than childrenExistError, is the last
\* request of the call, and the call raises that validation error,
\* whatever the details of the error hold.
C12_NotRecoverableSurfaces ==
    \A i \in EntityDeletes :
        NotRecoverable(i) =>
            /\ i = Len(de.log)
            /\ de.pc = "raised"
            /\ de.raised = "ValidationError"

\* every rejection of the call is a childrenExistError whose details name
\* some kind
NamedRejections ==
    \A i \in EntityDeletes :
        de.log[i].arg # "deleted" =>
            de.log[i].etype = "childrenExistError" /\ de.log[i].arg # Absent

\* the children the entity had when the call began
ChildrenAtCall ==
    Cardinality(de.log[1].checks_left) + Cardinality(de.log[1].alarms_left)

\* C14: with ex_delete_children, whatever kind the rejections name, an
\* entity DELETE is issued again only after a child has been deleted since
\* the one before, so that the entity DELETEs of a call are at most one more
\* than the children the entity had.
C14_RetryAfterProgress ==
    (de.ex_delete_children /\ NamedRejections) =>
        /\ \A j \in EntityDeletes :
               (\E i \in EntityDeletes : i < j) =>
                   \E k \in Between(PreviousDelete(j), j) :
                       de.log[k].op = "DELETE child"
        /\ EntityDeletes # {} =>
               Cardinality(EntityDeletes) <= 1 + ChildrenAtCall

(***************************************************************************)
(* Properties of _create and _update (SpecWrite).                          *)
(***************************************************************************)
DataKeys == {"label", "who", "details"}

\* the write requests and the constructor calls of the call
WriteRequests ==
    SelectSeq(wr_out.events,
              LAMBDA ev : ev.ev = "request" /\ ev.method \in {"POST", "PUT"})
ConstructorCalls == SelectSeq(wr_out.events, LAMBDA ev : ev.ev = "construct")

\* C5: the payload of the POST/PUT holds the keys of the data mapping whose
\* value is not None, each with its value, and no other key.
C5_PayloadStripsOnlyNone ==
    wr_out.done =>
        /\ Len(WriteRequests) = 1
        /\ WriteRequests[1].data.fmt = "json"
        /\ \A k \in DataKeys :
               WriteRequests[1].data.doc[k] =
                   (IF wr_in.data[k] = None THEN Absent ELSE wr_in.data[k])

\* C5 happens: a mapping with a None value, an empty text and an empty list
C5_Witness ==
    /\ wr_out.done
    /\ wr_in.data = [label |-> "", who |-> None, details |-> PyEmptyList]
    /\ WriteRequests[1].data.doc =
           [label |-> "", who |-> Absent, details |-> PyEmptyList]

\* what the write flow is expected to give, stated from the wire
WriteExpected == IF wr_in.method = "POST" THEN 201 ELSE 204
WriteLocated ==
    wr_in.resp.location.present /\ wr_in.resp.location.url # <<>>
WriteLocationKnown ==
    \A i \in 1..Len(wr_in.resp.location.url) :
        wr_in.resp.location.url[i] # "agents"
WriteSuccessStatus ==
    (wr_in.resp.status >= 200 /\ wr_in.resp.status <= 299)
    \/ wr_in.resp.status = 409
WriteExpectedIds ==
    IF Len(wr_in.resp.location.url) = 8
    THEN [NoIds EXCEPT !.entity_id = "enABC"]
    ELSE [NoIds EXCEPT !.entity_id = "enABC", !.check_id = "chDEF"]

\* C7 as claimed: one write request; an unexpected-status error for every
\* status but the expected one; a missing-location error for the expected
\* status without location; the constructor called if and only if the
\* status is the expected one and a location is present, once, after the
\* write, with the ids of the location.
C7_AsClaimed ==
    wr_out.done =>
        /\ Len(WriteRequests) = 1
        /\ wr_in.resp.status # WriteExpected =>
               wr_out.raised = "LibcloudError: Unexpected status code"
        /\ (wr_in.resp.status = WriteExpected /\ ~WriteLocated) =>
               wr_out.raised = "LibcloudError: Missing location header"
        /\ (Len(ConstructorCalls) = 1) <=>
               (wr_in.resp.status = WriteExpected /\ WriteLocated)
        /\ Len(ConstructorCalls) <= 1
        /\ Len(ConstructorCalls) = 1 =>
               /\ wr_out.events[1].ev = "request"
               /\ wr_out.events[2].kwargs = WriteExpectedIds

\* C7 as amended: one write request; the response class's own error for a
\* status that is no success (a validation error for 400); an
\* unexpected-status error for every other status but the expected one; a
\* missing-location error for the expected status without location; the
\* constructor called if and only if the status is the expected one, a
\* location is present and every collection name of it is known, once, after
\* the write, with the ids of the location and none of the body.
C7_WriteOutcome ==
    wr_out.done =>
        /\ Len(WriteRequests) = 1
        /\ wr_out.events[1].ev = "request"
        /\ wr_out.events[1].method = wr_in.method
        /\ ~WriteSuccessStatus =>
               wr_out.raised = (IF wr_in.resp.status = 400
                                THEN "ValidationError" ELSE "Exception")
        /\ (WriteSuccessStatus /\ wr_in.resp.status # WriteExpected) =>
               wr_out.raised = "LibcloudError: Unexpected status code"
        /\ (wr_in.resp.status = WriteExpected /\ ~WriteLocated) =>
               wr_out.raised = "LibcloudError: Missing location header"
        /\ (wr_in.resp.status = WriteExpected /\ WriteLocated
            /\ ~WriteLocationKnown) => wr_out.raised = "KeyError"
        /\ (Len(ConstructorCalls) = 1) <=>
               (wr_in.resp.status = WriteExpected /\ WriteLocated
                /\ WriteLocationKnown)
        /\ Len(ConstructorCalls) <= 1
        /\ Len(ConstructorCalls) = 1 =>
               /\ wr_out.raised = None
               /\ Len(wr_out.events) = 2
               /\ wr_out.events[2].ev = "construct"
               /\ wr_out.events[2].kwargs = WriteExpectedIds
               /\ \A k \in DOMAIN NoIds :
                      wr_out.events[2].kwargs[k] # wr_in.resp.body_id

\* C7 happens: an update answered 204 with the location of a check
C7_Witness ==
    /\ wr_out.done
    /\ wr_in.method = "PUT"
    /\ wr_in.resp.status = 204
    /\ Len(ConstructorCalls) = 1
    /\ ConstructorCalls[1].kwargs =
           [NoIds EXCEPT !.entity_id = "enABC", !.check_id = "chDEF"]

(***************************************************************************)
(* Properties of _url_to_obj_ids (SpecUrl).                                *)
(***************************************************************************)
\* the key each collection of the table is to give
ExpectedKey(c) ==
    CASE c = "entities" -> "entity_id"
      [] c = "alarms" -> "alarm_id"
      [] c = "checks" -> "check_id"
      [] c = "notifications" -> "notification_id"
      [] c = "notification_plans" -> "notification_plan_id"

InTable(c) ==
    c \in {"entities", "alarms", "checks", "notifications",
           "notification_plans"}
AllInTable == \A i \in 1..Len(loc_url.pairs) : InTable(loc_url.pairs[i].coll)
BoundKeys == {k \in DOMAIN loc_out.rv : loc_out.rv[k] # Absent}

\* C6 as claimed: one key per pair, bound to that pair's id; a failure for a
\* collection name outside the table.
C6_AsClaimed ==
    loc_out.done =>
        IF AllInTable
        THEN /\ loc_out.raised = None
             /\ Cardinality(BoundKeys) = Len(loc_url.pairs)
             /\ \A i \in 1..Len(loc_url.pairs) :
                    loc_out.rv[ExpectedKey(loc_url.pairs[i].coll)] =
                        loc_url.pairs[i].id
        ELSE loc_out.raised # None

\* the last pair of the location with the collection of pair i
LastWithColl(i) ==
    CHOOSE j \in 1..Len(loc_url.pairs) :
        /\ loc_url.pairs[j].coll = loc_url.pairs[i].coll
        /\ \A k \in 1..Len(loc_url.pairs) :
               loc_url.pairs[k].coll = loc_url.pairs[i].coll => k <= j

\* C6 as amended: the keys of the mapping are the '<singular>_id' of the
\* pairs' collections, each bound to the id of the last pair with that
\* collection (so one key per pair, bound to the pair's id, when no
\* collection is repeated); a failure for a collection name outside the
\* table.
C6_ResolvesLocation ==
    loc_out.done =>
        IF AllInTable
        THEN /\ loc_out.raised = None
             /\ BoundKeys = {ExpectedKey(loc_url.pairs[i].coll) :
                                i \in 1..Len(loc_url.pairs)}
             /\ \A i \in 1..Len(loc_url.pairs) :
                    loc_out.rv[ExpectedKey(loc_url.pairs[i].coll)] =
                        loc_url.pairs[LastWithColl(i)].id
        ELSE loc_out.raised = "KeyError"

\* C6 happens: /v1.0/12345/entities/enABC/checks/chDEF with the request
\* path /v1.0/12345
C6_Witness ==
    /\ loc_out.done
    /\ request_path = <<Slash, "v1.0", Slash, "12345">>
    /\ loc_url.url = <<Slash, "v1.0", Slash, "12345", Slash, "entities",
                       Slash, "enABC", Slash, "checks", Slash, "chDEF">>
    /\ loc_out.rv = [NoIds EXCEPT !.entity_id = "enABC", !.check_id = "chDEF"]

(***************************************************************************)
(* Properties of parse_error (SpecErr).                                    *)
(***************************************************************************)
\* the response declares JSON and its body is a JSON mapping with the keys
\* code, type, message and details
DeclaresJson ==
    \/ pe_in.headers.lower = "application/json"
    \/ (pe_in.headers.lower = Absent
        /\ pe_in.headers.upper = "application/json; charset=UTF-8")
FullErrorBody ==
    /\ pe_in.body.fmt = "json"
    /\ DeclaresJson
    /\ pe_in.body.doc.code # Absent
    /\ pe_in.body.doc.type # Absent
    /\ pe_in.body.doc.message # Absent
    /\ pe_in.body.doc.details.present

\* C8: for status 400 and a JSON body {code, type, message, details},
\* parse_error raises a validation error with these four values; for every
\* other status it raises no validation error and, the body decoding,
\* returns the decoded body: None for an empty body, the decoded mapping
\* for declared JSON, the text as it is otherwise.
C8_ParseError ==
    pe_out.done =>
        /\ (pe_in.status = 400 /\ FullErrorBody) =>
               /\ pe_out.raised = "ValidationError"
               /\ pe_out.error.code = pe_in.body.doc.code
               /\ pe_out.error.type = pe_in.body.doc.type
               /\ pe_out.error.message = pe_in.body.doc.message
               /\ pe_out.error.details = pe_in.body.doc.details
        /\ pe_in.status # 400 =>
               /\ pe_out.raised # "ValidationError"
               /\ pe_in.body.fmt = "empty" =>
                      (pe_out.raised = None /\ pe_out.ret.py = "None")
               /\ (pe_in.body.fmt = "json" /\ DeclaresJson) =>
                      /\ pe_out.raised = None
                      /\ pe_out.ret = [py |-> "dict", doc |-> pe_in.body.doc]
               /\ (pe_in.body.fmt # "empty" /\ ~DeclaresJson
                   /\ (pe_in.headers.lower # Absent
                       \/ pe_in.headers.upper # Absent)) =>
                      /\ pe_out.raised = None
                      /\ pe_out.ret = [py |-> "str", doc |-> pe_in.body.doc]

\* C8 happens: status 400 with a full JSON error body
C8_Witness ==
    /\ pe_out.done
    /\ pe_in.status = 400
    /\ FullErrorBody
    /\ pe_out.raised = "ValidationError"
    /\ pe_out.error.type = "invalidJson"
    /\ pe_out.error.code = "400"


====
